---- MODULE Spec2Model ----
(***************************************************************************)
(* Model of microfeed.py: the upload worker (process_files), the Feed      *)
(* Client wrappers it calls, the transfer with its transport retries, and  *)
(* the two Tk callbacks that start a run and drain the event queue.        *)
(*                                                                         *)
(* Sizes are counted in units of 1/5 GiB, so that the 4.8 GiB threshold    *)
(* of line 320 is the whole number 24 and fits TLC's integers.             *)
(***************************************************************************)
EXTENDS Integers, Sequences, FiniteSets, TLC

(* ------------------------------ bounds -------------------------------- *)

\* Number of times the Start button is pressed in one session.
MaxRuns == 2

\* Bytes (in units) handed out by one read() of the request body.
ChunkSize == 12

(* ------------------------- program constants -------------------------- *)

\* 4.8 * 1024 * 1024 * 1024 bytes, in units of 1/5 GiB (line 320).
TooLargeThreshold == 24

\* upload_file(..., max_retries=3, ...) (line 168), Retry(total=max_retries).
max_retries == 3

(* --------------------------- the environment -------------------------- *)

\* The video files of the selected folder, in the order iterdir() lists them.
DirOrder == <<"a.mp4", "b.mov">>

Files == {DirOrder[i] : i \in 1..Len(DirOrder)}

\* Sizes a file may have: one chunk, exactly the threshold, just above it.
FileSizes == {12, 24, 25}

\* What the remote service may answer to each request; "no_answer" is a
\* service that accepts the request and never responds.
CreateResponses  == {"created", "created_empty_id", "status_other",
                     "transport_error", "no_answer"}
PresignResponses == {"created", "created_missing_field", "status_other",
                     "transport_error", "no_answer"}
FetchResponses   == {"ok", "status_other", "transport_error", "no_answer"}
UpdateResponses  == {"ok", "not_found", "status_other", "transport_error",
                     "no_answer"}
\* One PUT attempt: 200/201/204, a status of status_forcelist, any other status.
PutResponses     == {"status_2xx", "status_forcelist", "status_other"}

VARIABLES
    \* filesystem
    fsize,            \* size of each file when the worker first reads it
    loc,              \* where each file is: "absent", "source", "too_large", "processed"
    \* remote service
    next_id,          \* the identifier the service gives the next record
    \* caller (Tk main thread)
    selected_folder,  \* root.selected_folder
    buttons,          \* state of select_folder_button / start_button
    chains,           \* number of self-rescheduling check_queue chains
    treeview,         \* iids of the rows of root.treeview
    file_info,        \* keys of root.file_info
    start_times,      \* keys of root.start_times
    queue,            \* root.queue
    \* worker thread (process_files)
    pc,               \* position of the worker
    video_files,      \* the discovered list
    idx,              \* enumerate index (1-based) of the file being processed
    size_in_bytes,
    item_id,
    urls,             \* <<presigned_url, media_url>>
    files_processed,
    \* upload_file / ProgressFile
    retries_total,    \* Retry.total still available
    read_bytes,       \* ProgressFile.read_bytes
    fpos,             \* position of the wrapped file object
    \* history of the current run (not program state)
    runs,             \* number of runs started
    loc_start,        \* where each file was when the current run started
    applied,          \* every message check_queue applied in this run, in order
    emitted,          \* every event put on the queue in this run, in order
    hist              \* every pipeline step taken in this run, in order

vars == <<fsize, loc, next_id, selected_folder, buttons, chains, treeview,
          file_info, start_times, queue, pc, video_files, idx, size_in_bytes,
          item_id, urls, files_processed, retries_total, read_bytes, fpos,
          runs, loc_start, applied, emitted, hist>>

fsVars     == <<fsize, loc>>
callerVars == <<selected_folder, buttons, chains>>
tableVars  == <<treeview, file_info, start_times>>
localVars  == <<size_in_bytes, item_id, urls, files_processed>>
xferVars   == <<retries_total, read_bytes, fpos>>

(* ------------------------------ events -------------------------------- *)

\* One queue message: kind k, file f (or "-"), text v, number n.
Ev(k, f, v, n) == [k |-> k, f |-> f, v |-> v, n |-> n]

Status(v)          == Ev("status", "-", v, 0)
FileStatusMsg(f, v) == Ev("status", f, v, 0)
FileStatus(f, v)   == Ev("file_status", f, v, 0)
FileProgress(f, n) == Ev("file_progress", f, "", n)
FileSpeed(f)       == Ev("file_speed", f, "", 0)
FileItemId(f, id)  == Ev("file_item_id", f, "", id)
FileApiLink(f, id) == Ev("file_api_link", f, "", id)
FileLocation(f, v) == Ev("file_location", f, v, 0)
OverallProgress(n) == Ev("overall_progress", "-", "", n)
EnableButtons      == Ev("enable_buttons", "-", "", 0)

\* One step of the pipeline of file f, and whether it succeeded.
Step(op, f, ok) == [op |-> op, f |-> f, ok |-> ok, n |-> 0, r |-> ""]

\* One call of progress_callback, with the byte count it was given.
ProgressStep(f, n) == [op |-> "progress", f |-> f, ok |-> TRUE, n |-> n, r |-> ""]

\* A Feed Client call that the service never answers and that has no timeout.
BlockedStep(op, f) == [op |-> op, f |-> f, ok |-> FALSE, n |-> 0, r |-> "blocked"]

\* A value the pipeline of f obtained or used: the identifier create_item
\* returned, the pair generate_presigned_url returned, the URL handed to
\* upload_file, the media URL and size handed to update_item_with_attachment.
ValueStep(op, f, n) == [op |-> op, f |-> f, ok |-> TRUE, n |-> n, r |-> ""]

\* One PUT attempt and the response it got.
AttemptStep(f, r, ok) == [op |-> "attempt", f |-> f, ok |-> ok, n |-> 0, r |-> r]

(* --------------------------- pure functions --------------------------- *)

\* Faulty variant: entries are listed whether or not they are files of the
\* folder.
get_video_files_unfiltered(where) == DirOrder

\* get_video_files: the video files that are in the folder, in directory order.
get_video_files(where) == SelectSeq(DirOrder, LAMBDA f : where[f] = "source")

\* create_item: the identifier on 201 with a non-empty "id", else None (0).
create_item(resp, id) == IF resp = "created" THEN id ELSE 0

\* generate_presigned_url: <<presigned_url, media_url>> issued for record id on
\* 201 with both fields, else <<None, None>>.
generate_presigned_url(resp, id) == IF resp = "created" THEN <<id, id>> ELSE <<0, 0>>

\* fetch_item: the item data (its identifier here) on 200, else None (0).
fetch_item(resp, id) == IF resp = "ok" THEN id ELSE 0

\* update_item_with_attachment: True on 200 only.
update_item_with_attachment(resp) == resp = "ok"

\* file_path.stat().st_size at line 419: the size the file has by then, which
\* is the size read at line 319 or, when another program appended to the file
\* meanwhile, a larger one.
SizesAtSecondStat(size) == {size, size + 1}

\* Whether the request of a Feed Client operation is issued with a timeout:
\* requests.post at lines 94 and 129 and requests.put at line 252 pass none,
\* requests.get at line 217 passes timeout=30.
has_timeout(op) == op = "fetch"

\* The call never returns: no timeout, and the service never answers.
blocks(op, resp) == resp = "no_answer" /\ ~has_timeout(op)

\* progress_callback: percentage = bytes_uploaded / total_size * 100 (whole part).
percentage(bytes_uploaded, total_size) == (bytes_uploaded * 100) \div total_size

\* overall_percentage = files_processed / total_files * 100 (whole part).
overall_percentage(processed, total_files) == (processed * 100) \div total_files

\* Retry.is_exhausted of the Retry object upload_file configures: the retry
\* counter, decremented after a failed attempt, has gone below zero.
\* Faulty variant: one retry too many.
is_exhausted_late(total) == total < -1

is_exhausted(total) == total < 0

\* ProgressFile.read: the length of data returned by file.read(chunk_size).
read_len(size, pos) == IF size - pos < ChunkSize THEN size - pos ELSE ChunkSize

(* ----------------------- branches of process_files -------------------- *)

\* line 320
IsTooLarge(size) == size > TooLargeThreshold

AfterSizeCheck(size) == IF IsTooLarge(size) THEN "too_large" ELSE "create"

\* Faulty variant: the continue of line 336 is missing.
AfterTooLarge_fall_through == "create"

\* line 336: continue
AfterTooLarge == "loop"

\* lines 350-354
AfterCreate(id) == IF id = 0 THEN "loop" ELSE "presign"

\* Faulty variant: the pair returned by generate_presigned_url is not
\* checked.
AfterPresign_unchecked(u) == "upload"

\* lines 368-372
AfterPresign(u) == IF u[1] = 0 \/ u[2] = 0 THEN "loop" ELSE "upload"

\* Faulty variant: the result of upload_file is not checked.
AfterUpload_unchecked(success) == "sleep"

\* Faulty variant: a successful transfer ends the iteration, with no fetch
\* or finalize and so no terminal status.
AfterUpload_drop(success) == "loop"

\* lines 391-395
AfterUpload(success) == IF success THEN "sleep" ELSE "loop"

\* line 398 then line 401
AfterSleep == "fetch"

\* Faulty variant: the result of fetch_item is not checked.
AfterFetch_unchecked(item_data) == "update"

\* lines 407-411
AfterFetch(item_data) == IF item_data = 0 THEN "loop" ELSE "update"

\* Faulty variant: the move to processed/ is outside the if of line 433.
AfterUpdate_always_move(update_success) == "move_processed"

\* lines 433-453
AfterUpdate(update_success) == IF update_success THEN "move_processed" ELSE "tail"

\* The file the worker is processing.
file_path == video_files[idx]

\* root.queue.put of each message of msgs, in order.
Put(msgs) ==
    /\ queue' = queue \o msgs
    /\ emitted' = emitted \o msgs

Record(steps) == hist' = hist \o steps

(* -------------------------------- Init -------------------------------- *)

Init ==
    /\ fsize \in [Files -> FileSizes]
    /\ loc \in [Files -> {"source", "absent"}]
    /\ next_id = 1
    /\ selected_folder = FALSE
    /\ buttons = "normal"
    /\ chains = 0
    /\ treeview = {}
    /\ file_info = {}
    /\ start_times = {}
    /\ queue = <<>>
    /\ pc = "idle"
    /\ video_files = <<>>
    /\ idx = 0
    /\ size_in_bytes = 0
    /\ item_id = 0
    /\ urls = <<0, 0>>
    /\ files_processed = 0
    /\ retries_total = 0
    /\ read_bytes = 0
    /\ fpos = 0
    /\ runs = 0
    /\ loc_start = loc
    /\ applied = <<>>
    /\ emitted = <<>>
    /\ hist = <<>>

(* ------------------------- caller (Tk main thread) -------------------- *)

\* select_folder_action: the dialog returns a folder.
select_folder_action ==
    /\ buttons = "normal"
    /\ ~selected_folder
    /\ selected_folder' = TRUE
    /\ UNCHANGED <<fsVars, next_id, buttons, chains, tableVars, queue, pc,
                   video_files, idx, localVars, xferVars,
                   runs, loc_start, applied, emitted, hist>>

\* start_upload_action with a folder selected (without one it shows an error
\* box and changes nothing).
start_upload_action ==
    /\ buttons = "normal"
    /\ selected_folder
    /\ runs < MaxRuns
    /\ buttons' = "disabled"
    /\ start_times' = {}
    /\ file_info' = {}
    /\ pc' = "load_config"
    /\ chains' = chains + 1
    /\ runs' = runs + 1
    /\ loc_start' = loc
    /\ applied' = <<>>
    /\ video_files' = <<>>
    /\ idx' = 0
    /\ size_in_bytes' = 0
    /\ item_id' = 0
    /\ urls' = <<0, 0>>
    /\ files_processed' = 0
    /\ retries_total' = 0
    /\ read_bytes' = 0
    /\ fpos' = 0
    /\ emitted' = <<>>
    /\ hist' = <<>>
    /\ UNCHANGED <<fsVars, next_id, selected_folder, treeview, queue>>

\* Faulty variant: the message is read and left on the queue.
get_nowait_peek(q) == <<Head(q), q>>

\* root.queue.get_nowait() on a non-empty queue.Queue: the oldest message and
\* the queue without it.
get_nowait(q) == <<Head(q), Tail(q)>>

\* Faulty variant: any message re-enables the buttons.
apply_enable_buttons_always(message, state) == "normal"

\* Lines 672-674: 'enable_buttons' sets both buttons to normal.
apply_enable_buttons(message, state) ==
    IF message.k = "enable_buttons" THEN "normal" ELSE state

\* check_queue: one turn of its while loop, applying one message. Every
\* polling chain runs in the Tk main thread, one callback at a time.
check_queue ==
    /\ chains > 0
    /\ queue # <<>>
    /\ LET got == get_nowait(queue) IN
         /\ queue' = got[2]
         /\ buttons' = apply_enable_buttons(got[1], buttons)
         /\ applied' = Append(applied, got[1])
    /\ UNCHANGED <<fsVars, next_id, selected_folder, chains, tableVars, pc,
                   video_files, idx, localVars, xferVars,
                   runs, loc_start, emitted, hist>>

(* ---------------------- worker thread: process_files ------------------ *)

\* Lines 270-278: load_config, which ends the thread through sys.exit(1) when
\* api.json is missing, unparsable or incomplete; then the scanning status.
process_files_load_config ==
    /\ pc = "load_config"
    /\ \E config_ok \in BOOLEAN :
         IF config_ok
         THEN /\ pc' = "scan"
              /\ Put(<<Status("scanning")>>)
         ELSE /\ pc' = "exited"
              /\ UNCHANGED <<queue, emitted>>
    /\ UNCHANGED <<fsVars, next_id, callerVars, tableVars, video_files, idx,
                   localVars, xferVars, runs, loc_start, applied, hist>>

\* Lines 281-288: discovery; an empty list ends the run early.
process_files_scan ==
    /\ pc = "scan"
    /\ video_files' = get_video_files(loc)
    /\ IF video_files' = <<>>
       THEN /\ Put(<<Status("no_video_files"), EnableButtons>>)
            /\ pc' = "done"
       ELSE /\ pc' = "init_rows"
            /\ UNCHANGED <<queue, emitted>>
    /\ files_processed' = 0
    /\ UNCHANGED <<fsVars, next_id, callerVars, tableVars, idx, size_in_bytes,
                   item_id, urls, xferVars, runs, loc_start, applied, hist>>

\* Names of the first n discovered files.
FirstNames(n) == {video_files[i] : i \in 1..n}

\* Lines 291-311: one file_info entry, one treeview row and one start time per
\* file. treeview.insert raises TclError for an iid the table already holds,
\* which ends the thread at that file.
process_files_init_rows ==
    /\ pc = "init_rows"
    /\ LET n   == Len(video_files)
           dup == {i \in 1..n : video_files[i] \in treeview}
           k   == IF dup = {} THEN n + 1
                  ELSE CHOOSE i \in dup : \A j \in dup : i <= j
       IN  /\ file_info' = file_info \cup FirstNames(IF k > n THEN n ELSE k)
           /\ treeview' = treeview \cup FirstNames(k - 1)
           /\ start_times' = start_times \cup FirstNames(k - 1)
           /\ pc' = IF k > n THEN "loop" ELSE "crashed"
    /\ UNCHANGED <<fsVars, next_id, callerVars, queue, video_files, idx,
                   localVars, xferVars, runs, loc_start, applied, emitted, hist>>

\* Lines 313-316: the next file of the list and its two "Processing" messages.
process_files_next ==
    /\ pc = "loop"
    /\ idx < Len(video_files)
    /\ idx' = idx + 1
    /\ Put(<<FileStatusMsg(video_files[idx + 1], "processing"),
             FileStatus(video_files[idx + 1], "Processing")>>)
    /\ pc' = "stat"
    /\ UNCHANGED <<fsVars, next_id, callerVars, tableVars, video_files,
                   localVars, xferVars, runs, loc_start, applied, hist>>

\* Lines 463-464: after the last file.
process_files_finish ==
    /\ pc = "loop"
    /\ idx = Len(video_files)
    /\ Put(<<Status("all_processed"), EnableButtons>>)
    /\ pc' = "done"
    /\ UNCHANGED <<fsVars, next_id, callerVars, tableVars, video_files, idx,
                   localVars, xferVars, runs, loc_start, applied, hist>>

\* Lines 319-320: file_path.stat(), outside any try: an OSError (the file was
\* removed or became unreadable since discovery) ends the thread.
process_files_stat ==
    /\ pc = "stat"
    /\ \E stat_ok \in BOOLEAN :
         IF stat_ok
         THEN /\ size_in_bytes' = fsize[file_path]
              /\ pc' = AfterSizeCheck(fsize[file_path])
              /\ Record(<<Step("stat", file_path, TRUE),
                          ValueStep("compared_size", file_path,
                                    fsize[file_path])>>)
         ELSE /\ pc' = "crashed"
              /\ Record(<<Step("stat", file_path, FALSE)>>)
              /\ UNCHANGED size_in_bytes
    /\ UNCHANGED <<fsVars, next_id, callerVars, tableVars, queue, video_files,
                   idx, item_id, urls, files_processed, xferVars,
                   runs, loc_start, applied, emitted>>

\* Lines 321-336: mkdir (outside the try: its error ends the thread), then
\* the move and its messages, then continue.
process_files_too_large ==
    /\ pc = "too_large"
    /\ \E mkdir_ok \in BOOLEAN, move_ok \in BOOLEAN :
         IF ~mkdir_ok
         THEN /\ pc' = "crashed"
              /\ Record(<<Step("mkdir", file_path, FALSE)>>)
              /\ UNCHANGED <<loc, queue, emitted>>
         ELSE /\ pc' = AfterTooLarge
              /\ Record(<<Step("mkdir", file_path, TRUE),
                          Step("move", file_path, move_ok)>>)
              /\ IF move_ok
                 THEN /\ loc' = [loc EXCEPT ![file_path] = "too_large"]
                      /\ Put(<<FileStatusMsg(file_path, "too_large_moved"),
                               FileStatus(file_path, "Too Large"),
                               FileLocation(file_path, "too_large")>>)
                 ELSE /\ Put(<<FileStatusMsg(file_path, "too_large_move_failed"),
                               FileStatus(file_path, "Error")>>)
                      /\ UNCHANGED loc
    /\ UNCHANGED <<fsize, next_id, callerVars, tableVars, video_files, idx,
                   localVars, xferVars, runs, loc_start, applied>>

\* Lines 339-357: create_item and the branch on its result.
process_files_create ==
    /\ pc = "create"
    /\ \E resp \in CreateResponses :
         LET id == create_item(resp, next_id) IN
         IF blocks("create", resp)
         THEN /\ pc' = "blocked"
              /\ Record(<<BlockedStep("create", file_path)>>)
              /\ UNCHANGED <<item_id, next_id, queue, emitted>>
         ELSE /\ item_id' = id
              /\ next_id' = IF resp = "created" THEN next_id + 1 ELSE next_id
              /\ Record(IF id = 0
                        THEN <<Step("create", file_path, FALSE)>>
                        ELSE <<Step("create", file_path, TRUE),
                               ValueStep("created_id", file_path, id)>>)
              /\ pc' = AfterCreate(id)
              /\ IF id = 0
                 THEN Put(<<FileStatusMsg(file_path, "create_failed"),
                            FileStatus(file_path, "Error")>>)
                 ELSE Put(<<FileItemId(file_path, id)>>)
    /\ UNCHANGED <<fsVars, callerVars, tableVars, video_files, idx,
                   size_in_bytes, urls, files_processed, xferVars,
                   runs, loc_start, applied>>

\* Lines 360-375: generate_presigned_url and the branch on its result.
process_files_presign ==
    /\ pc = "presign"
    /\ \E resp \in PresignResponses :
         LET u == generate_presigned_url(resp, item_id) IN
         IF blocks("presign", resp)
         THEN /\ pc' = "blocked"
              /\ Record(<<BlockedStep("presign", file_path)>>)
              /\ UNCHANGED <<urls, queue, emitted>>
         ELSE /\ urls' = u
              /\ Record(<<Step("presign", file_path, u[1] # 0 /\ u[2] # 0),
                          ValueStep("issued_upload_url", file_path, u[1]),
                          ValueStep("issued_media_url", file_path, u[2])>>)
              /\ pc' = AfterPresign(u)
              /\ IF u[1] = 0 \/ u[2] = 0
                 THEN Put(<<FileStatusMsg(file_path, "presign_failed"),
                            FileStatus(file_path, "Error")>>)
                 ELSE Put(<<FileApiLink(file_path, u[2])>>)
    /\ UNCHANGED <<fsVars, next_id, callerVars, tableVars, video_files, idx,
                   size_in_bytes, item_id, files_processed, xferVars,
                   runs, loc_start, applied>>

(* ------------------- upload_file and ProgressFile --------------------- *)

\* What one PUT attempt leads to, given the response and the retry counter
\* before it: "success" (200/201/204), "retry" (a status of status_forcelist
\* with retries left), "failure" (retries exhausted, or any other status).
upload_outcome(resp, total) ==
    IF resp = "status_2xx" THEN "success"
    ELSE IF resp = "status_forcelist" /\ ~is_exhausted(total - 1) THEN "retry"
    ELSE "failure"

\* Lines 378-390 and 173-189: the start time, the session with its Retry
\* object, open() and the ProgressFile around the file.
upload_file_open ==
    /\ pc = "upload"
    /\ start_times' = start_times \cup {file_path}
    /\ IF loc[file_path] = "source"
       THEN /\ retries_total' = max_retries
            /\ read_bytes' = 0
            /\ fpos' = 0
            /\ pc' = "put_body"
            /\ Record(<<Step("upload_start", file_path, TRUE),
                        ValueStep("put_url", file_path, urls[1])>>)
            /\ UNCHANGED <<queue, emitted>>
       ELSE \* FileNotFoundError: upload_file returns False
            /\ pc' = AfterUpload(FALSE)
            /\ Record(<<Step("upload_start", file_path, TRUE),
                        ValueStep("put_url", file_path, urls[1]),
                        Step("upload", file_path, FALSE)>>)
            /\ Put(<<FileStatusMsg(file_path, "upload_failed"),
                     FileStatus(file_path, "Upload Failed")>>)
            /\ UNCHANGED xferVars
    /\ UNCHANGED <<fsVars, next_id, callerVars, treeview, file_info,
                   video_files, idx, localVars, runs, loc_start, applied>>

\* ProgressFile.read (lines 158-163) with progress_callback (lines 378-384):
\* the transport reads the next chunk of the body.
ProgressFile_read ==
    /\ pc = "put_body"
    /\ fpos < fsize[file_path]
    /\ LET n == read_len(fsize[file_path], fpos) IN
         /\ fpos' = fpos + n
         /\ read_bytes' = read_bytes + n
         /\ Put(<<FileProgress(file_path,
                               percentage(read_bytes + n, fsize[file_path])),
                  FileSpeed(file_path)>>)
         /\ Record(<<ProgressStep(file_path, read_bytes + n)>>)
    /\ UNCHANGED <<fsVars, next_id, callerVars, tableVars, pc, video_files,
                   idx, localVars, retries_total, runs, loc_start, applied>>

\* Lines 190-199 and 391-395: the body is sent and the response arrives. A
\* retry rewinds the body to the position recorded before the first attempt
\* and sends it again through the same ProgressFile.
upload_file_response ==
    /\ pc = "put_body"
    /\ fpos = fsize[file_path]
    /\ \E resp \in PutResponses :
         LET out == upload_outcome(resp, retries_total) IN
         CASE out = "success" ->
                /\ pc' = AfterUpload(TRUE)
                /\ Record(<<AttemptStep(file_path, resp, TRUE),
                            Step("upload", file_path, TRUE)>>)
                /\ UNCHANGED <<queue, emitted, xferVars>>
           [] out = "retry" ->
                /\ retries_total' = retries_total - 1
                /\ fpos' = 0
                /\ Record(<<AttemptStep(file_path, resp, FALSE)>>)
                /\ UNCHANGED <<queue, emitted, pc, read_bytes>>
           [] OTHER ->
                /\ pc' = AfterUpload(FALSE)
                /\ Record(<<AttemptStep(file_path, resp, FALSE),
                            Step("upload", file_path, FALSE)>>)
                /\ Put(<<FileStatusMsg(file_path, "upload_failed"),
                         FileStatus(file_path, "Upload Failed")>>)
                /\ UNCHANGED xferVars
    /\ UNCHANGED <<fsVars, next_id, callerVars, tableVars, video_files, idx,
                   localVars, runs, loc_start, applied>>

(* ------------------ process_files after the transfer ------------------ *)

\* Line 398: time.sleep(5).
process_files_sleep ==
    /\ pc = "sleep"
    /\ pc' = AfterSleep
    /\ Record(<<Step("sleep", file_path, TRUE)>>)
    /\ UNCHANGED <<fsVars, next_id, callerVars, tableVars, queue, video_files,
                   idx, localVars, xferVars, runs, loc_start, applied, emitted>>

\* Lines 401-411: fetch_item and the branch on its result.
process_files_fetch ==
    /\ pc = "fetch"
    /\ \E resp \in FetchResponses :
         LET item_data == fetch_item(resp, item_id) IN
         IF blocks("fetch", resp)
         THEN /\ pc' = "blocked"
              /\ Record(<<BlockedStep("fetch", file_path)>>)
              /\ UNCHANGED <<queue, emitted>>
         ELSE /\ pc' = AfterFetch(item_data)
              /\ Record(<<Step("fetch", file_path, item_data # 0)>>)
              /\ IF item_data = 0
                 THEN Put(<<FileStatusMsg(file_path, "fetch_failed"),
                            FileStatus(file_path, "Error")>>)
                 ELSE UNCHANGED <<queue, emitted>>
    /\ UNCHANGED <<fsVars, next_id, callerVars, tableVars, video_files, idx,
                   localVars, xferVars, runs, loc_start, applied>>

\* Lines 414-436 and 450-453: the second stat() (outside any try),
\* update_item_with_attachment and the messages of its two branches.
process_files_update ==
    /\ pc = "update"
    /\ \E stat_ok \in BOOLEAN, resp \in UpdateResponses,
          st_size \in SizesAtSecondStat(fsize[file_path]) :
         IF ~stat_ok
         THEN /\ pc' = "crashed"
              /\ Record(<<Step("stat2", file_path, FALSE)>>)
              /\ UNCHANGED <<size_in_bytes, queue, emitted>>
         ELSE LET update_success == update_item_with_attachment(resp) IN
              /\ size_in_bytes' = st_size
              /\ IF blocks("update", resp)
                 THEN /\ pc' = "blocked"
                      /\ Record(<<Step("stat2", file_path, TRUE),
                                  ValueStep("update_media_url", file_path,
                                            urls[2]),
                                  ValueStep("update_size", file_path, st_size),
                                  BlockedStep("update", file_path)>>)
                      /\ UNCHANGED <<queue, emitted>>
                 ELSE /\ pc' = AfterUpdate(update_success)
                      /\ Record(<<Step("stat2", file_path, TRUE),
                                  ValueStep("update_media_url", file_path,
                                            urls[2]),
                                  ValueStep("update_size", file_path, st_size),
                                  Step("update", file_path, update_success)>>)
                      /\ IF update_success
                         THEN Put(<<FileStatusMsg(file_path, "processed_ok"),
                                    FileStatus(file_path, "Completed")>>)
                         ELSE Put(<<FileStatusMsg(file_path, "update_failed"),
                                    FileStatus(file_path, "Error")>>)
    /\ UNCHANGED <<fsVars, next_id, callerVars, tableVars, video_files, idx,
                   item_id, urls, files_processed, xferVars, runs, loc_start, applied>>

\* Lines 437-449: mkdir (outside the try: its error ends the thread), then
\* the move to processed/ and its messages.
process_files_move_processed ==
    /\ pc = "move_processed"
    /\ \E mkdir_ok \in BOOLEAN, move_ok \in BOOLEAN :
         IF ~mkdir_ok
         THEN /\ pc' = "crashed"
              /\ Record(<<Step("mkdir", file_path, FALSE)>>)
              /\ UNCHANGED <<loc, queue, emitted>>
         ELSE /\ pc' = "tail"
              /\ Record(<<Step("mkdir", file_path, TRUE),
                          Step("move", file_path, move_ok)>>)
              /\ IF move_ok
                 THEN /\ loc' = [loc EXCEPT ![file_path] = "processed"]
                      /\ Put(<<FileStatusMsg(file_path, "moved_processed"),
                               FileLocation(file_path, "processed")>>)
                 ELSE /\ Put(<<FileStatusMsg(file_path, "processed_move_failed")>>)
                      /\ UNCHANGED loc
    /\ UNCHANGED <<fsize, next_id, callerVars, tableVars, video_files, idx,
                   localVars, xferVars, runs, loc_start, applied>>

\* Lines 455-461: the overall progress and the final 100 of the file.
process_files_tail ==
    /\ pc = "tail"
    /\ files_processed' = files_processed + 1
    /\ Put(<<OverallProgress(overall_percentage(files_processed + 1,
                                                Len(video_files))),
             FileProgress(file_path, 100)>>)
    /\ pc' = "loop"
    /\ UNCHANGED <<fsVars, next_id, callerVars, tableVars, video_files, idx,
                   size_in_bytes, item_id, urls, xferVars,
                   runs, loc_start, applied, hist>>

(* ---------------------------- specification --------------------------- *)

Worker ==
    \/ process_files_load_config
    \/ process_files_scan
    \/ process_files_init_rows
    \/ process_files_next
    \/ process_files_finish
    \/ process_files_stat
    \/ process_files_too_large
    \/ process_files_create
    \/ process_files_presign
    \/ upload_file_open
    \/ ProgressFile_read
    \/ upload_file_response
    \/ process_files_sleep
    \/ process_files_fetch
    \/ process_files_update
    \/ process_files_move_processed
    \/ process_files_tail

Next ==
    \/ select_folder_action
    \/ start_upload_action
    \/ check_queue
    \/ Worker

Spec == Init /\ [][Next]_vars

(* ============================== claims =============================== *)

(* ------------------------------ vocabulary ---------------------------- *)

\* The worker thread has ended: normally, by an uncaught exception, or by
\* sys.exit.
WorkerEnded == pc \in {"done", "crashed", "exited"}

\* The worker has gone on past the i-th discovered file.
Left(i) == i < idx \/ (i = idx /\ pc \in {"loop", "done"})

\* The processing of the i-th discovered file is over: the worker has gone on
\* past it, or the thread ended while at it.
Over(i) == Left(i) \/ (i = idx /\ WorkerEnded)

\* The steps recorded for file f, in order.
StepsOf(f) == SelectSeq(hist, LAMBDA s : s.f = f)

\* The steps of the given kinds recorded for file f, in order.
StepsIn(f, ops) == SelectSeq(hist, LAMBDA s : s.f = f /\ s.op \in ops)

\* Steps that contact the remote service or the object store.
RemoteOps == {"create", "presign", "upload_start", "attempt", "upload",
              "fetch", "update"}

NoRemoteCall(f) == StepsIn(f, RemoteOps) = <<>>

\* The terminal per-file statuses put on the queue for f, in order.
TerminalStatuses == {"Too Large", "Error", "Upload Failed", "Completed"}

TerminalOf(f) ==
    SelectSeq(emitted, LAMBDA e : e.k = "file_status" /\ e.f = f
                                  /\ e.v \in TerminalStatuses)

\* The per-file percentages put on the queue for f, in order.
ProgressOf(f) == SelectSeq(emitted, LAMBDA e : e.k = "file_progress" /\ e.f = f)

Last(seq) == seq[Len(seq)]

Discovered == {video_files[i] : i \in 1..Len(video_files)}

(* --------------------------------- C1 --------------------------------- *)

\* C1: every discovered file above the 4.8 GiB threshold that the worker has
\* left behind has the single outcome Too Large, had no remote call made for
\* it, and is at too_large/<name>.
C1_TooLargeOutcome ==
    \A i \in 1..idx :
        LET f == video_files[i] IN
        (IsTooLarge(fsize[f]) /\ Left(i)) =>
            /\ TerminalOf(f) = <<FileStatus(f, "Too Large")>>
            /\ NoRemoteCall(f)
            /\ loc[f] = "too_large"

(* --------------------------------- C2 --------------------------------- *)

\* C2: in a run whose worker has ended, CreateRecord was called exactly once
\* for every discovered file at or under the threshold; and after a failed
\* CreateRecord no credential request, transfer, fetch or finalize is made.
C2_CreateExactlyOnce ==
    /\ WorkerEnded =>
         \A f \in Discovered :
            ~IsTooLarge(fsize[f]) => Len(StepsIn(f, {"create"})) = 1
    /\ \A f \in Files :
         LET R == StepsIn(f, RemoteOps) IN
         (Len(R) >= 1 /\ R[1].op = "create" /\ ~R[1].ok) => Len(R) = 1

(* --------------------------------- C3 --------------------------------- *)

\* The order of the steps of one target.
StepOrder == <<"stat", "create", "presign", "upload_start", "upload",
               "sleep", "fetch", "update">>

PipelineOf(f) ==
    StepsIn(f, {StepOrder[i] : i \in 1..Len(StepOrder)})

\* C3: the steps taken for a target are an initial part of size check,
\* create, credential, transfer start, transfer result, settle delay, fetch,
\* finalize; each is taken at most once, only after the one before it
\* succeeded, and create only for a size at or under the threshold.
C3_StepsInOrder ==
    \A f \in Files :
        LET P == PipelineOf(f) IN
        /\ Len(P) <= Len(StepOrder)
        /\ \A i \in 1..Len(P) :
              /\ P[i].op = StepOrder[i]
              /\ i > 1 => P[i - 1].ok
              /\ i = 2 => ~IsTooLarge(fsize[f])

\* A target went through every step and was finalized.
C3_Witness ==
    \E f \in Files :
        /\ Len(PipelineOf(f)) = Len(StepOrder)
        /\ Last(PipelineOf(f)).ok

(* --------------------------------- C4 --------------------------------- *)

\* C4: once the per-file loop has started, the worker ends only at the end
\* of the run, after the last discovered target.
C4_NoFailureAbortsRun ==
    (WorkerEnded /\ idx >= 1) => (pc = "done" /\ idx = Len(video_files))

(* --------------------------------- C5 --------------------------------- *)

\* C5: a run whose worker has ended has emitted, last of all, its final
\* status ("All files processed.", or the no-video-files status of an empty
\* folder) followed by the re-enable-controls signal.
C5_RunEndsWithFinalEvents ==
    WorkerEnded =>
        /\ Len(emitted) >= 2
        /\ emitted[Len(emitted)] = EnableButtons
        /\ emitted[Len(emitted) - 1].k = "status"
        /\ emitted[Len(emitted) - 1].v \in {"all_processed", "no_video_files"}

(* --------------------------------- C6 --------------------------------- *)

AttemptsOf(f) == StepsIn(f, {"attempt"})

AllForcelist(f) ==
    LET A == AttemptsOf(f) IN
    \A i \in 1..Len(A) : A[i].r = "status_forcelist"

\* C6: a transfer makes at most max_retries + 1 = 4 attempts; one whose
\* every attempt was answered by a status of status_forcelist (503) has,
\* when it returns, made exactly 4, returns failure and is reported as
\* Upload Failed; and upload_file is called at most once per target.
C6_RetryBound ==
    \A f \in Files :
        LET A == AttemptsOf(f)
            U == StepsIn(f, {"upload"})
        IN
        /\ Len(A) <= max_retries + 1
        /\ Len(StepsIn(f, {"upload_start"})) <= 1
        /\ (U # <<>> /\ A # <<>> /\ AllForcelist(f)) =>
                /\ Len(A) = max_retries + 1
                /\ ~U[1].ok
                /\ TerminalOf(f) = <<FileStatus(f, "Upload Failed")>>

\* A transfer was answered 503 four times and reported as Upload Failed.
C6_Witness ==
    \E f \in Files :
        /\ Len(AttemptsOf(f)) = max_retries + 1
        /\ AllForcelist(f)
        /\ TerminalOf(f) = <<FileStatus(f, "Upload Failed")>>

(* --------------------------------- C7 --------------------------------- *)

\* The byte counts given to progress_callback for f, in order.
BytesOf(f) == StepsIn(f, {"progress"})

UploadSucceeded(f) ==
    StepsIn(f, {"upload"}) # <<>> /\ StepsIn(f, {"upload"})[1].ok

\* C7: for a target whose transfer succeeded, the byte counts given to the
\* progress callback never decrease and, once the worker has gone on past the
\* target, the last per-file percentage emitted for it is 100.
C7_ProgressEndsAt100 ==
    \A i \in 1..idx :
        LET f == video_files[i] IN
        UploadSucceeded(f) =>
            /\ \A j \in 1..(Len(BytesOf(f)) - 1) :
                   BytesOf(f)[j].n <= BytesOf(f)[j + 1].n
            /\ Left(i) =>
                   /\ ProgressOf(f) # <<>>
                   /\ Last(ProgressOf(f)).n = 100

(* --------------------------------- C8 --------------------------------- *)

\* A step of f whose failure gives the outcome CreateFailed,
\* CredentialFailed, UploadFailed or FinalizeFailed.
FailedStep(f) ==
    \E i \in 1..Len(hist) :
        /\ hist[i].f = f
        /\ hist[i].op \in {"create", "presign", "upload", "fetch", "update"}
        /\ ~hist[i].ok

\* C8: a target with a failed create, credential, transfer, fetch or
\* finalize step, or with the status Error or Upload Failed, is still at its
\* original path, and no move of it was attempted after such a failed step.
C8_FailedFileStaysInPlace ==
    \A f \in Files :
        /\ FailedStep(f) =>
              /\ loc[f] = "source"
              /\ StepsIn(f, {"move"}) = <<>>
        /\ (TerminalOf(f) # <<>>
              /\ TerminalOf(f)[1].v \in {"Error", "Upload Failed"}) =>
              loc[f] = "source"

\* A run ended in which the finalize of a target failed.
C8_Witness ==
    /\ pc = "done"
    /\ \E f \in Files :
          /\ StepsIn(f, {"update"}) # <<>>
          /\ ~StepsIn(f, {"update"})[1].ok
          /\ TerminalOf(f) = <<FileStatus(f, "Error")>>

(* --------------------------------- C9 --------------------------------- *)

MovesOf(f) == {j \in 1..Len(hist) : hist[j].f = f /\ hist[j].op = "move"}

\* C9: at most one move is attempted per target in a run; it comes either
\* after the size check found the file too large, with no remote call made
\* for it, or after its finalize succeeded and Completed was emitted; and no
\* remote call for the target follows it.
C9_RelocatedOnceAfterOutcome ==
    \A f \in Files :
        /\ Cardinality(MovesOf(f)) <= 1
        /\ \A j \in MovesOf(f) :
              /\ \/ /\ IsTooLarge(fsize[f])
                    /\ \E k \in 1..(j - 1) :
                          hist[k] = Step("stat", f, TRUE)
                    /\ \A k \in 1..(j - 1) :
                          hist[k].f = f => hist[k].op \notin RemoteOps
                 \/ /\ \E k \in 1..(j - 1) : hist[k] = Step("update", f, TRUE)
                    /\ TerminalOf(f) = <<FileStatus(f, "Completed")>>
              /\ \A k \in (j + 1)..Len(hist) :
                    hist[k].f = f => hist[k].op \notin RemoteOps

\* A finalized target was moved to processed/ and the worker went on.
C9_Witness ==
    \E i \in 1..idx :
        /\ Left(i)
        /\ loc[video_files[i]] = "processed"
        /\ MovesOf(video_files[i]) # {}

(* --------------------------------- C10 -------------------------------- *)

\* C10: every target whose processing is over has received exactly one
\* terminal per-file status, and the file is where that outcome puts it:
\* in too_large/ only if Too Large, in processed/ only if Completed, in
\* place after Error or Upload Failed.
C10_ExactlyOneOutcome ==
    \A i \in 1..idx :
        LET f == video_files[i] IN
        Over(i) =>
            /\ Len(TerminalOf(f)) = 1
            /\ loc[f] = "too_large" => TerminalOf(f)[1].v = "Too Large"
            /\ loc[f] = "processed" => TerminalOf(f)[1].v = "Completed"
            /\ TerminalOf(f)[1].v \in {"Error", "Upload Failed"} =>
                  loc[f] = "source"

(* --------------------------------- C11 -------------------------------- *)

\* The status texts that report a failure.
FailureTexts == {"create_failed", "presign_failed", "upload_failed",
                 "fetch_failed", "update_failed", "too_large_move_failed",
                 "processed_move_failed"}

\* The failure reports put on the queue for f, in order.
FailureReportsOf(f) ==
    SelectSeq(emitted, LAMBDA e : e.k = "status" /\ e.f = f
                                  /\ e.v \in FailureTexts)

\* The per-file status updates that name a failure, put on the queue for f.
FailureStatusesOf(f) ==
    SelectSeq(emitted, LAMBDA e : e.k = "file_status" /\ e.f = f
                                  /\ e.v \in {"Error", "Upload Failed"})

\* A create, credential, transfer, fetch, finalize or move of f returned
\* failure.
ReturnedFailure(f) ==
    \E i \in 1..Len(hist) :
        /\ hist[i].f = f
        /\ hist[i].op \in {"create", "presign", "upload", "fetch", "update",
                           "move"}
        /\ ~hist[i].ok
        /\ hist[i].r # "blocked"

\* C11: a target for which a create, credential, transfer, fetch, finalize
\* or move returned failure has exactly one failure report and exactly one
\* per-file status update naming the failure on the queue.
C11_OneReportPerFailure ==
    \A f \in Files :
        ReturnedFailure(f) =>
            /\ Len(FailureReportsOf(f)) = 1
            /\ Len(FailureStatusesOf(f)) = 1

(* --------------------------------- C12 -------------------------------- *)

\* Positions in emitted of the events of the given kind for f.
EventsAt(f, k) == {i \in 1..Len(emitted) : emitted[i].k = k /\ emitted[i].f = f}

TerminalAt(f) ==
    {i \in EventsAt(f, "file_status") : emitted[i].v \in TerminalStatuses}

ProcessingAt(f) ==
    {i \in EventsAt(f, "file_status") : emitted[i].v = "Processing"}

\* The queue holds the events not yet delivered, in the order they were put.
QueueIsFifo ==
    /\ Len(queue) <= Len(emitted)
    /\ queue = SubSeq(emitted, Len(emitted) - Len(queue) + 1, Len(emitted))

\* C12 as stated: Processing is put before every progress event of the file,
\* no per-file progress event is put after the file's Completed status, and
\* the queue delivers in the order of the puts.
C12_NoProgressAfterCompleted ==
    /\ \A f \in Files :
          /\ \A j \in EventsAt(f, "file_progress") :
                \E i \in ProcessingAt(f) : i < j
          /\ \A i \in TerminalAt(f), j \in EventsAt(f, "file_progress") :
                emitted[i].v = "Completed" => j < i
    /\ QueueIsFifo

\* C12 amended: Processing is put before every progress event and every
\* terminal status of the file; the progress events of the transfer are all
\* put before the terminal status; the one per-file progress event put after
\* a terminal status is the closing 100 of the iteration, which follows the
\* status of the finalize step (Completed or Error) and the overall progress
\* event; and the queue delivers in the order of the puts.
C12_EventOrder ==
    /\ \A f \in Files :
          LET Progress   == EventsAt(f, "file_progress")
              Terminal   == TerminalAt(f)
              Processing == ProcessingAt(f)
          IN
          /\ \A j \in Progress \cup Terminal : \E i \in Processing : i < j
          /\ \A i \in Terminal, j \in Progress :
                i < j =>
                   /\ emitted[i].v \in {"Completed", "Error"}
                   /\ StepsIn(f, {"update"}) # <<>>
                   /\ emitted[j].n = 100
                   /\ emitted[j - 1].k = "overall_progress"
                   /\ \A m \in Progress : m <= j
    /\ QueueIsFifo

\* A target had transfer progress put before its Completed status and the
\* closing 100 put after it, and the caller has taken events off the queue.
C12_Witness ==
    /\ Len(queue) < Len(emitted)
    /\ queue # <<>>
    /\ \E f \in Files :
          \E i \in TerminalAt(f), j, m \in EventsAt(f, "file_progress") :
             /\ emitted[i].v = "Completed"
             /\ m < i
             /\ i < j

(* --------------------------------- C13 -------------------------------- *)

\* Position of f in the discovered list.
PosOf(f) == CHOOSE i \in 1..Len(video_files) : video_files[i] = f

\* The transfer of f has started and has not returned.
TransferInProgress(f) ==
    StepsIn(f, {"upload_start"}) # <<>> /\ StepsIn(f, {"upload"}) = <<>>

\* C13: the steps of a run are taken target by target in discovery order
\* (the position of the target never decreases along the run); when any step (size check, remote call, transfer, relocation) of a target
\* has been taken, every target before it has its terminal status; and at
\* most one transfer is in progress.
C13_OneAtATime ==
    /\ \A k \in 1..(Len(hist) - 1) :
          \/ hist[k].f = hist[k + 1].f
          \/ PosOf(hist[k].f) < PosOf(hist[k + 1].f)
    /\ \A i, j \in 1..Len(video_files) :
          (i < j /\ \E k \in 1..Len(hist) : hist[k].f = video_files[j]) =>
             TerminalOf(video_files[i]) # <<>>
    /\ Cardinality({f \in Files : TransferInProgress(f)}) <= 1

\* A remote call was made for the second target after the first had its
\* transfer and its terminal status.
C13_Witness ==
    /\ Len(video_files) = 2
    /\ StepsIn(video_files[1], {"upload"}) # <<>>
    /\ StepsIn(video_files[2], {"create"}) # <<>>

(* --------------------------------- C14 -------------------------------- *)

\* The finalize of f returned success (and so did every step before it).
Finalized(f) ==
    \E k \in 1..Len(hist) : hist[k].f = f /\ hist[k].op = "update" /\ hist[k].ok

\* C14: a target whose create, credential, transfer, fetch and finalize all
\* succeeded and whose processing is over has the single outcome Completed,
\* is at processed/<name>, and has 100 as its last per-file progress event;
\* and Completed is emitted only for a target whose finalize succeeded.
C14_CompletedAndRelocated ==
    /\ \A i \in 1..idx :
          LET f == video_files[i] IN
          (Finalized(f) /\ Over(i)) =>
             /\ TerminalOf(f) = <<FileStatus(f, "Completed")>>
             /\ loc[f] = "processed"
             /\ ProgressOf(f) # <<>>
             /\ Last(ProgressOf(f)).n = 100
    /\ \A f \in Files :
          (\E i \in TerminalAt(f) : emitted[i].v = "Completed") => Finalized(f)

(* --------------------------------- C15 -------------------------------- *)

\* C15: every byte count given to the progress callback is at most the size
\* of the file, and every per-file percentage put on the queue is at most
\* 100, retried transfers included.
C15_CountWithinSize ==
    /\ \A k \in 1..Len(hist) :
          hist[k].op = "progress" => hist[k].n <= fsize[hist[k].f]
    /\ \A i \in 1..Len(emitted) :
          emitted[i].k = "file_progress" => emitted[i].n <= 100

(* --------------------------------- C16 -------------------------------- *)

\* The values recorded under op for f, in order.
ValuesOf(f, op) ==
    LET S == StepsIn(f, {op}) IN {S[i].n : i \in 1..Len(S)}

\* Positions in hist where a URL is handed to a transfer or to a finalize.
UsedUrlsAt ==
    {k \in 1..Len(hist) : hist[k].op \in {"put_url", "update_media_url"}}

\* C16: at most one credential is requested per target; the URL handed to the
\* transfer of a target and the media URL handed to its finalize are the
\* pair that was issued for the record identifier created for that same
\* target; and no URL used for one target is used for another.
C16_CredentialOfOwnRecord ==
    /\ \A f \in Files :
          LET Created == ValuesOf(f, "created_id") IN
          /\ Len(StepsIn(f, {"presign"})) <= 1
          /\ \A u \in ValuesOf(f, "put_url") :
                /\ u # 0
                /\ Created = {u}
                /\ ValuesOf(f, "issued_upload_url") = {u}
          /\ \A m \in ValuesOf(f, "update_media_url") :
                /\ m # 0
                /\ Created = {m}
                /\ ValuesOf(f, "issued_media_url") = {m}
    /\ \A j, k \in UsedUrlsAt :
          hist[j].f # hist[k].f => hist[j].n # hist[k].n

\* Two targets of one run were each transferred with a credential, and one
\* of them was finalized.
C16_Witness ==
    /\ \A f \in Files : ValuesOf(f, "put_url") # {}
    /\ \E f \in Files : ValuesOf(f, "update_media_url") # {}

(* --------------------------------- C17 -------------------------------- *)

\* C17: no step of the worker changes the display table, the per-file
\* information mapping or the start-time mapping of the caller.
C17_WorkerOnlyEnqueues == [][Worker => UNCHANGED tableVars]_vars

(* --------------------------------- C18 -------------------------------- *)

\* C18: the worker is never left waiting without end inside a create,
\* credential, fetch or finalize call that the service does not answer.
C18_NoCallBlocksForever == pc # "blocked"

(* --------------------------------- C19 -------------------------------- *)

\* The move of f to too_large/ or processed/ was attempted and failed.
MoveFailed(f) ==
    \E k \in 1..Len(hist) : hist[k].f = f /\ hist[k].op = "move" /\ ~hist[k].ok

\* C19: a target whose move failed has the failure reported by a status
\* event, has as per-file status the outcome reached before the move (Too
\* Large for a file above the threshold, Completed for a finalized one), and
\* the worker goes on with the loop.
C19_MoveFailureKeepsOutcome ==
    \A f \in Files :
        MoveFailed(f) =>
            /\ FailureReportsOf(f) # <<>>
            /\ TerminalOf(f) # <<>>
            /\ Last(TerminalOf(f)).v =
                  IF IsTooLarge(fsize[f]) THEN "Too Large" ELSE "Completed"
            /\ ~(pc = "crashed" /\ file_path = f)

(* --------------------------------- C20 -------------------------------- *)

\* The folder held no video file when the run started.
EmptyAtStart == \A f \in Files : loc_start[f] # "source"

C21_ConfigFailureBeforeAnyRun ==
    pc = "exited" => (runs = 0 /\ buttons = "normal")

(* --------------------------------- C22 -------------------------------- *)

\* C22: the size handed to update_item_with_attachment for a target is the
\* size that was compared against the threshold for it.
C22_SizeReadOnce ==
    \A f \in Files :
        \A n \in ValuesOf(f, "update_size") :
            ValuesOf(f, "compared_size") = {n}

(* --------------------------------- C23 -------------------------------- *)

\* C23: the start control is enabled only when no worker is alive and the
\* queue is drained; the re-enable signal is the last thing a worker puts on
\* the queue, after which it has returned; and from the start of a run the
\* control stays disabled until the caller has applied that run's re-enable
\* signal. So a worker is only ever started when none is running.
C23_SingleWorker ==
    /\ buttons = "normal" => (pc \in {"idle", "done"} /\ queue = <<>>)
    /\ \A i \in 1..Len(emitted) :
          emitted[i] = EnableButtons => (i = Len(emitted) /\ pc = "done")
    /\ (runs >= 1 /\ \A i \in 1..Len(applied) : applied[i] # EnableButtons)
          => buttons = "disabled"

\* A second worker is running, started after the first had ended.
C23_Witness == runs = 2 /\ pc = "scan" /\ buttons = "disabled"

(* --------------------------------- C24 -------------------------------- *)

\* The overall progress values put on the queue, in order.
OverallOf == SelectSeq(emitted, LAMBDA e : e.k = "overall_progress")

\* C24: the overall progress values of a run never decrease and never exceed
\* 100, and a run over at least one file that has ended with "All files
\* processed." has emitted 100 as its last overall progress value.
C24_OverallProgressReaches100 ==
    /\ \A i \in 1..Len(OverallOf) : OverallOf[i].n <= 100
    /\ \A i \in 1..(Len(OverallOf) - 1) : OverallOf[i].n <= OverallOf[i + 1].n
    /\ (pc = "done" /\ video_files # <<>>) =>
          /\ OverallOf # <<>>
          /\ Last(OverallOf).n = 100

(* --------------------------------- C25 -------------------------------- *)

\* The Tk main loop runs the pending after() callbacks, and every polling
\* chain reschedules itself (line 677): a waiting message is taken.
LiveSpec == Spec /\ WF_vars(check_queue)

\* C25: the messages the caller has applied, followed by those still on the
\* queue, are always exactly the messages the worker has put, in the order
\* of the puts (each is applied once, in order); and the queue is drained
\* again and again, so that every message put is applied in the end.
C25_AppliedOnceInOrder ==
    /\ [](emitted = applied \o queue)
    /\ []<>(queue = <<>>)

\* In a second run, with two polling chains on the queue, the caller has
\* applied every message of the run.
C25_Witness ==
    /\ runs = 2
    /\ chains = 2
    /\ Len(applied) >= 3
    /\ queue = <<>>

====
